---- MODULE Spec2Model ----
(***************************************************************************)
(* Behavioural model of two adapter components:                            *)
(*   - comps/rerankings/src/integrations/videoqna.py  (video reranking)    *)
(*   - comps/llms/src/text-generation/integrations/tgi_llm.py (TGI LLM)    *)
(*                                                                         *)
(* Text is modelled as a sequence of symbols.  A symbol is either a single *)
(* character class representative ("x", "1", ".", "/") or a fixed group of *)
(* characters that the code's regular expressions and templates treat as a *)
(* unit ("_interval_", "mp4", "avi", "{context}", ...).  Concatenation of  *)
(* text is \o, the empty string is << >>.                                  *)
(***************************************************************************)
EXTENDS Integers, Sequences, FiniteSets, TLC

VARIABLES
    \* ---- video reranking adapter ----
    file_server_endpoint,   \* module-level configuration (videoqna.py:19)
    rr_pc,                  \* "idle" | "done"
    rr_input,               \* the SearchedMultimodalDoc passed to invoke
    top_video_names,        \* local of invoke: result of get_top_doc
    rr_status,              \* "none" | "ok" | "400" | "500"
    rr_detail,              \* detail of the HTTPException raised
    rr_result,              \* the LVMVideoDoc returned
    \* ---- filename canonicalizer applied on its own ----
    fn_pc,                  \* "start" | "once" | "twice"
    fn_name,                \* the filename given
    fn_out1,                \* outcome of format_video_name(fn_name)
    fn_out2,                \* outcome of format_video_name(first output)
    \* ---- TGI LLM adapter ----
    pc,                     \* "idle" | "returned" | "streaming" | "finished" | "raised" | "failed"
    input,                  \* the document passed to invoke
    calls,                  \* upstream calls issued by invoke, in order
    exc,                    \* exception that escaped invoke ("none" if none)
    pulled,                 \* chunks the upstream iterator has delivered so far
    frames,                 \* frames the stream generator has yielded so far
    health_outcome,         \* what the upstream did on the health probe
    health_result,          \* what check_health returned
    health_call             \* the probe call issued by check_health

rr_vars == <<file_server_endpoint, rr_pc, rr_input, top_video_names, rr_status, rr_detail, rr_result>>
fn_vars == <<fn_pc, fn_name, fn_out1, fn_out2>>
llm_vars == <<pc, input, calls, exc, pulled, frames, health_outcome, health_result, health_call>>
vars == <<rr_vars, fn_vars, llm_vars>>

(***************************************************************************)
(* Bounds of the model.                                                    *)
(***************************************************************************)
MaxMeta == 3        \* longest metadata list given to the reranker
MaxTopN == 2        \* largest top_n given to the reranker
MaxNameLen == 5     \* longest filename (in symbols) given to the canonicalizer
MaxChunks == 3      \* most chunks the upstream stream delivers

(***************************************************************************)
(* Generic sequence helpers.                                               *)
(***************************************************************************)
Last(s) == s[Len(s)]

SeqsUpTo(S, n) == UNION {[1..k -> S] : k \in 0..n}

RECURSIVE Flatten(_)
Flatten(ss) == IF ss = << >> THEN << >> ELSE Head(ss) \o Flatten(Tail(ss))

\* Python's sep.join(list-of-strings)
RECURSIVE Join(_, _)
Join(sep, docs) ==
    IF docs = << >> THEN << >>
    ELSE IF Len(docs) = 1 THEN Head(docs)
    ELSE Head(docs) \o sep \o Join(sep, Tail(docs))

\* Python's list[:n]
Slice(s, n) ==
    IF n >= 0 THEN SubSeq(s, 1, IF n < Len(s) THEN n ELSE Len(s))
    ELSE SubSeq(s, 1, IF Len(s) + n > 0 THEN Len(s) + n ELSE 0)

(***************************************************************************)
(* videoqna.py                                                             *)
(***************************************************************************)

\* Character classes of Python's re module over the symbols used here.
IsDigit(c) == c \in {"0", "1"}
IsWord(c) == c \notin {".", "/"}

\* hit_score after the accumulation loop: the keys in insertion order
\* (first occurrence) ...
RECURSIVE hit_score_keys(_)
hit_score_keys(videos) ==
    IF videos = << >> THEN << >>
    ELSE LET rest == hit_score_keys(SubSeq(videos, 1, Len(videos) - 1))
             v == Last(videos)
         IN IF \E i \in 1..Len(rest) : rest[i] = v THEN rest ELSE Append(rest, v)

\* ... and the count held under each key.
hit_score(videos, v) == Cardinality({i \in 1..Len(videos) : videos[i] = v})

\* sorted_insert with ties broken the other way: v overtakes equal scores.
sorted_insert_unstable(sorted, v, videos) ==
    LET before == {i \in 0..Len(sorted) :
                      \A j \in 1..i : hit_score(videos, sorted[j]) > hit_score(videos, v)}
        k == CHOOSE i \in before : \A j \in before : j <= i
    IN SubSeq(sorted, 1, k) \o <<v>> \o SubSeq(sorted, k + 1, Len(sorted))

\* One step of sorted(): v goes after every element whose key -score is not
\* greater, i.e. after every element with score >= its own (stable).
sorted_insert(sorted, v, videos) ==
    LET before == {i \in 0..Len(sorted) :
                      \A j \in 1..i : hit_score(videos, sorted[j]) >= hit_score(videos, v)}
        k == CHOOSE i \in before : \A j \in before : j <= i
    IN SubSeq(sorted, 1, k) \o <<v>> \o SubSeq(sorted, k + 1, Len(sorted))

\* sorted(hit_score.items(), key=lambda item: -item[1]) -> the keys, in order
RECURSIVE sorted_by_score(_, _)
sorted_by_score(keys, videos) ==
    IF keys = << >> THEN << >>
    ELSE sorted_insert(sorted_by_score(SubSeq(keys, 1, Len(keys) - 1), videos),
                       Last(keys), videos)

get_top_doc(top_n, videos) ==
    Slice(sorted_by_score(hit_score_keys(videos), videos), top_n)

\* The metadata entry whose timestamp find_timestamp_from_video reads:
\* the first one whose video equals the given one (0 if there is none).
first_match(metadata_list, video) ==
    IF \E i \in 1..Len(metadata_list) : metadata_list[i].video = video
    THEN CHOOSE i \in 1..Len(metadata_list) :
            /\ metadata_list[i].video = video
            /\ \A j \in 1..(i - 1) : metadata_list[j].video # video
    ELSE 0

\* re.search(r"\.(\w+)$", video_name): position of the dot that starts the
\* match, 0 when there is no match.
extension_dot(video_name) ==
    LET n == Len(video_name)
        hits == {i \in 1..n : /\ video_name[i] = "."
                              /\ i < n
                              /\ \A j \in (i + 1)..n : IsWord(video_name[j])}
    IN IF hits = {} THEN 0 ELSE CHOOSE i \in hits : \A j \in hits : i <= j

\* Does t match (_interval_\d+)?(\.mp4)? in full (the $ anchors the end).
suffix_matches(t) ==
    \E k \in 0..Len(t) :
        /\ \/ k = 0
           \/ /\ k >= 2
              /\ t[1] = "_interval_"
              /\ \A j \in 2..k : IsDigit(t[j])
        /\ SubSeq(t, k + 1, Len(t)) \in {<< >>, <<".", "mp4">>}

\* strip_suffix that leaves an existing .mp4 extension in place.
strip_suffix_keep_ext(video_name) ==
    LET n == Len(video_name)
        starts == {p \in 1..(n + 1) :
                      /\ SubSeq(video_name, p, n) # <<".", "mp4">>
                      /\ suffix_matches(SubSeq(video_name, p, n))}
        p0 == CHOOSE p \in starts : \A q \in starts : p <= q
    IN SubSeq(video_name, 1, p0 - 1)

\* re.sub(r"(_interval_\d+)?(\.mp4)?$", "", video_name): the leftmost match
\* runs to the end of the name and is replaced by the empty string.
strip_suffix(video_name) ==
    LET n == Len(video_name)
        starts == {p \in 1..(n + 1) : suffix_matches(SubSeq(video_name, p, n))}
        p0 == CHOOSE p \in starts : \A q \in starts : p <= q
    IN SubSeq(video_name, 1, p0 - 1)

\* Outcome of format_video_name: the formatted name, or the ValueError.
format_video_name(video_name) ==
    LET d == extension_dot(video_name)
        extension == SubSeq(video_name, d + 1, Len(video_name))
    IN IF d # 0 /\ extension # <<"mp4">>
       THEN [ok |-> FALSE,
             value |-> <<"Invalid file extension: .">> \o extension
                          \o <<". Only '.mp4' is allowed.">>]
       ELSE [ok |-> TRUE, value |-> strip_suffix(video_name) \o <<".", "mp4">>]

\* str.rstrip('/')
RECURSIVE rstrip_slash(_)
rstrip_slash(s) ==
    IF s # << >> /\ Last(s) = "/" THEN rstrip_slash(SubSeq(s, 1, Len(s) - 1)) ELSE s

chunk_duration == 10
max_new_tokens == 512

\* Inputs offered to the reranker.
VideoNames ==
    {<<"x", "_interval_", "1", ".", "mp4">>, <<"y", ".", "mp4">>, <<"x", ".", "avi">>, <<"y">>}

MetaEntries ==
    [video : VideoNames, has_timestamp : {TRUE}, timestamp : {0, 10}]
    \cup [video : VideoNames, has_timestamp : {FALSE}, timestamp : {0}]

FileServerEndpoints == {<<"http://0.0.0.0:6005">>, <<"http://files", "/">>}

NoDoc == [video_url |-> << >>, prompt |-> << >>, chunk_start |-> 0,
          chunk_duration |-> 0, max_new_tokens |-> 0]

\* The except clauses of invoke with every exception mapped to the generic
\* server error.
http_status_all_500(raised) == "500"

\* The except clauses of invoke: ValueError -> 400, any other Exception -> 500.
http_status(raised) == IF raised = "ValueError" THEN "400" ELSE "500"

\* OpeaVideoReranking.invoke, from the call to the return or the raise.
rr_invoke ==
    /\ rr_pc = "idle"
    /\ \E metadata \in SeqsUpTo(MetaEntries, MaxMeta), top_n \in (-1)..MaxTopN :
        LET video_names == [i \in 1..Len(metadata) |-> metadata[i].video]
            top == get_top_doc(top_n, video_names)
            m == first_match(metadata, top[1])
            formatted == format_video_name(top[1])
            raised ==
                IF top = << >> THEN "IndexError"          \* top_video_names[0]
                ELSE IF m # 0 /\ ~metadata[m].has_timestamp
                     THEN "KeyError"                      \* metadata["timestamp"]
                ELSE IF ~formatted.ok THEN "ValueError"   \* format_video_name
                ELSE "none"
        IN /\ rr_input' = [metadata |-> metadata, top_n |-> top_n, initial_query |-> <<"q">>]
           /\ top_video_names' = top
           /\ IF raised = "none"
              THEN /\ rr_status' = "ok"
                   /\ rr_detail' = << >>
                   /\ rr_result' =
                        [video_url |-> rstrip_slash(file_server_endpoint) \o <<"/">>
                                          \o formatted.value,
                         prompt |-> <<"q">>,
                         chunk_start |-> IF m = 0 THEN -1 ELSE metadata[m].timestamp,
                         chunk_duration |-> chunk_duration,
                         max_new_tokens |-> max_new_tokens]
              ELSE /\ rr_status' = http_status(raised)
                   /\ rr_detail' = IF http_status(raised) = "400" THEN formatted.value
                                   ELSE <<"An unexpected error occurred.">>
                   /\ rr_result' = NoDoc
    /\ rr_pc' = "done"
    /\ UNCHANGED file_server_endpoint

(***************************************************************************)
(* format_video_name applied to a name, then to its own output.            *)
(***************************************************************************)
NameSymbols == {"x", "_interval_", "1", ".", "mp4", "avi"}

NoOutcome == [ok |-> FALSE, value |-> << >>]

fn_first ==
    /\ fn_pc = "start"
    /\ fn_out1' = format_video_name(fn_name)
    /\ fn_pc' = "once"
    /\ UNCHANGED <<fn_name, fn_out2>>

fn_second ==
    /\ fn_pc = "once"
    /\ fn_out1.ok
    /\ fn_out2' = format_video_name(fn_out1.value)
    /\ fn_pc' = "twice"
    /\ UNCHANGED <<fn_name, fn_out1>>

(***************************************************************************)
(* tgi_llm.py                                                              *)
(***************************************************************************)

\* Names a template placeholder may carry, in sorted order.
VarNames == <<"context", "question", "topic">>

Placeholder(n) == "{" \o n \o "}"

IsPlaceholder(sym) == \E k \in 1..Len(VarNames) : sym = Placeholder(VarNames[k])

NameOf(sym) ==
    VarNames[CHOOSE k \in 1..Len(VarNames) : sym = Placeholder(VarNames[k])]

Contains(text, sym) == \E i \in 1..Len(text) : text[i] = sym

\* PromptTemplate.from_template(...).input_variables: the distinct
\* placeholder names of the template, sorted.
input_variables_of(template) ==
    SelectSeq(VarNames, LAMBDA n : Contains(template, Placeholder(n)))

\* sorted() of a list of distinct placeholder names.
sorted(names) ==
    SelectSeq(VarNames, LAMBDA n : \E i \in 1..Len(names) : names[i] = n)

\* template.format(**binding): every placeholder is replaced by the text
\* bound to its name; a placeholder with no binding raises KeyError.
format(template, binding) ==
    IF \E i \in 1..Len(template) :
          IsPlaceholder(template[i]) /\ NameOf(template[i]) \notin DOMAIN binding
    THEN [exc |-> "KeyError", value |-> << >>]
    ELSE [exc |-> "none",
          value |-> Flatten([i \in 1..Len(template) |->
                       IF IsPlaceholder(template[i])
                       THEN binding[NameOf(template[i])]
                       ELSE <<template[i]>>])]

NL == <<"\n">>

\* "\n".join(documents); joining None raises TypeError.
join_documents(documents) ==
    IF documents.is_none
    THEN [exc |-> "TypeError", value |-> << >>]
    ELSE [exc |-> "none", value |-> Join(NL, documents.docs)]

\* ChatTemplate.generate_rag_prompt(question, documents, model)
generate_rag_prompt(question, docs) ==
    <<"### Search results:">> \o Join(NL, docs) \o <<"### Question:">> \o question

\* The template test of align_input with the first comparison made on the
\* unsorted list against ["question", "context"].
template_branch_unsorted(input_variables) ==
    IF input_variables = <<"question", "context">> THEN "question+context"
    ELSE IF input_variables = <<"question">> THEN "question"
    ELSE "unused"

\* The template test of align_input (lines 120-124 and 151-155).
template_branch(input_variables) ==
    IF sorted(input_variables) = <<"context", "question">> THEN "question+context"
    ELSE IF input_variables = <<"question">> THEN "question"
    ELSE "unused"

\* The prompt of align_input's LLMParamsDoc and ChatCompletionRequest
\* branches, which differ only in the field the question is read from.
templated_prompt(question, documents, prompt_template, input_variables) ==
    IF prompt_template # << >>
    THEN IF template_branch(input_variables) = "question+context"
         THEN LET ctx == join_documents(documents)
              IN IF ctx.exc # "none" THEN [exc |-> ctx.exc, value |-> << >>]
                 ELSE format(prompt_template, [question |-> question, context |-> ctx.value])
         ELSE IF template_branch(input_variables) = "question"
         THEN format(prompt_template, [question |-> question])
         ELSE [exc |-> "none", value |-> question]
    ELSE IF ~documents.is_none /\ documents.docs # << >>
         THEN [exc |-> "none", value |-> generate_rag_prompt(question, documents.docs)]
         ELSE [exc |-> "none", value |-> question]

\* align_input: the prompt and the stream flag of the request it returns.
\* default_stream is the stream default of a ChatCompletionRequest built
\* from the prompt alone.
align_input(inp, prompt_template, input_variables, default_stream) ==
    IF inp.type = "SearchedDoc"
    THEN [exc |-> "none",
          prompt |-> IF inp.documents.docs # << >>
                     THEN generate_rag_prompt(inp.query, inp.documents.docs)
                     ELSE inp.query,
          stream |-> default_stream]
    ELSE LET p == templated_prompt(inp.query, inp.documents, prompt_template, input_variables)
         IN [exc |-> p.exc, prompt |-> p.value, stream |-> inp.stream]

\* The object a PromptTemplate is, as it appears when used as message content.
template_object(prompt_template) ==
    <<"PromptTemplate(">> \o prompt_template \o <<")">>

\* invoke, lines 184-200: the message list handed to chat.completions.
chat_messages(inp, prompt_template, input_variables) ==
    IF inp.messages = << >>
    THEN [exc |-> "IndexError", messages |-> << >>]
    ELSE IF inp.messages[1].role = "system"
    THEN IF Contains(inp.messages[1].content, "{context}")
         THEN LET ctx == IF inp.documents.is_none \/ inp.documents.docs = << >>
                         THEN << >>
                         ELSE Join(NL, inp.documents.docs)
                  formatted == format(inp.messages[1].content, [context |-> ctx])
              IN \* the formatted string is computed and dropped
                 [exc |-> formatted.exc,
                  messages |-> IF formatted.exc = "none" THEN inp.messages ELSE << >>]
         ELSE [exc |-> "none", messages |-> inp.messages]
    ELSE IF prompt_template # << >>
    THEN IF input_variables = <<"context">>
         THEN LET ctx == join_documents(inp.documents)
                  formatted == format(prompt_template, [context |-> ctx.value])
              IN IF ctx.exc # "none"
                 THEN [exc |-> ctx.exc, messages |-> << >>]
                 ELSE [exc |-> "none",
                       messages |-> <<[role |-> "system", content |-> formatted.value]>>
                                       \o inp.messages]
         ELSE [exc |-> "none",
               messages |-> <<[role |-> "system",
                               content |-> template_object(prompt_template)]>>
                               \o inp.messages]
    ELSE [exc |-> "none", messages |-> inp.messages]

\* The dispatch test of invoke with the isinstance(messages, str) part left out.
uses_chat_endpoint_any_chat(inp) == inp.type = "ChatCompletionRequest"

\* invoke, line 180: is the request sent to chat.completions.
uses_chat_endpoint(inp) == inp.type = "ChatCompletionRequest" /\ ~inp.is_str

\* Inputs offered to the adapter.
Queries == {<<"q">>}

DocLists == {<< >>, <<<<"a">>>>, <<<<"a">>, <<"b">>>>}

Templates ==
    { << >>,
      <<"Q:", "{question}", "C:", "{context}">>,
      <<"Ask:", "{question}">>,
      <<"Ctx:", "{context}">>,
      <<"About", "{topic}">>,
      <<"{question}", "{topic}">>,
      <<"plain">> }

MessageLists ==
    { << >>,
      <<[role |-> "user", content |-> <<"hi">>]>>,
      <<[role |-> "system", content |-> <<"Sys">>], [role |-> "user", content |-> <<"hi">>]>>,
      <<[role |-> "system", content |-> <<"Use", "{context}">>],
        [role |-> "user", content |-> <<"hi">>]>>,
      <<[role |-> "system", content |-> <<"{context}", "{topic}">>],
        [role |-> "user", content |-> <<"hi">>]>> }

Documents == [is_none : {FALSE}, docs : DocLists] \cup {[is_none |-> TRUE, docs |-> << >>]}

\* type, the question text (initial_query, query, or messages when a str),
\* messages when a list, documents (retrieved_docs of a SearchedDoc),
\* chat_template (<< >> when None or empty), stream (streaming).
LLMInputs ==
    [type : {"SearchedDoc"}, query : Queries, is_str : {TRUE}, messages : {<< >>},
     documents : [is_none : {FALSE}, docs : DocLists], chat_template : {<< >>},
     stream : {FALSE}]
    \cup
    [type : {"LLMParamsDoc"}, query : Queries, is_str : {TRUE}, messages : {<< >>},
     documents : [is_none : {FALSE}, docs : DocLists], chat_template : Templates,
     stream : BOOLEAN]
    \cup
    [type : {"ChatCompletionRequest"}, query : Queries, is_str : {TRUE}, messages : {<< >>},
     documents : Documents, chat_template : Templates, stream : BOOLEAN]
    \cup
    [type : {"ChatCompletionRequest"}, query : {<< >>}, is_str : {FALSE},
     messages : MessageLists, documents : Documents, chat_template : Templates,
     stream : BOOLEAN]

NoInput ==
    [type |-> "none", query |-> << >>, is_str |-> TRUE, messages |-> << >>,
     documents |-> [is_none |-> TRUE, docs |-> << >>], chat_template |-> << >>,
     stream |-> FALSE]

\* TGILLM.invoke, from the call to the return or the raise.  The variable
\* input keeps the document as the caller built it; what invoke made of it
\* is in the call it issued.
llm_invoke ==
    /\ pc = "idle"
    /\ \E inp \in LLMInputs, default_stream \in BOOLEAN, upstream_ok \in BOOLEAN :
        LET prompt_template == IF inp.type # "SearchedDoc" THEN inp.chat_template ELSE << >>
            input_variables == input_variables_of(prompt_template)
            chat == uses_chat_endpoint(inp)
            msgs == chat_messages(inp, prompt_template, input_variables)
            aligned == align_input(inp, prompt_template, input_variables, default_stream)
            raised == IF chat THEN msgs.exc ELSE aligned.exc
            stream == IF chat THEN inp.stream ELSE aligned.stream
            call == IF chat
                    THEN [endpoint |-> "chat.completions", prompt |-> << >>,
                          messages |-> msgs.messages, stream |-> stream]
                    ELSE [endpoint |-> "completions", prompt |-> aligned.prompt,
                          messages |-> << >>, stream |-> stream]
        IN /\ inp.type = "SearchedDoc" \/ default_stream = FALSE
           /\ raised = "none" \/ upstream_ok
           /\ input' = inp
           /\ IF raised # "none"
              THEN calls' = calls /\ exc' = raised /\ pc' = "failed"
              ELSE /\ calls' = Append(calls, call)
                   /\ IF ~upstream_ok
                      THEN exc' = "APIError" /\ pc' = "failed"
                      ELSE exc' = "none" /\ pc' = IF stream THEN "streaming" ELSE "returned"
    /\ UNCHANGED <<pulled, frames, health_outcome, health_result, health_call>>

\* Chunks of the upstream stream: completion objects carrying a text.
Sentinels == {"<|im_end|>", "<|endoftext|>"}

Chunks == [text : {"A", "B"} \cup Sentinels]

\* c.model_dump_json(): the JSON document of the chunk object.
model_dump_json(c) == "{\"text\":\"" \o c.text \o "\"}"

DONE == "data: [DONE]\n\n"

\* The generator's last statement without its yield.
on_exhausted_silent(yielded) == yielded

\* stream_generator, line 257: what follows the loop.
on_exhausted(yielded) == Append(yielded, DONE)

\* stream_generator, lines 254-256: the loop body for one chunk.
on_chunk(yielded, c) ==
    LET chunk == model_dump_json(c)
    IN IF chunk \notin Sentinels THEN Append(yielded, "data: " \o chunk \o "\n\n")
       ELSE yielded

\* The consumer pulls and the upstream iterator delivers a chunk.
stream_chunk ==
    /\ pc = "streaming"
    /\ Len(pulled) < MaxChunks
    /\ \E c \in Chunks :
          /\ pulled' = Append(pulled, c)
          /\ frames' = on_chunk(frames, c)
    /\ UNCHANGED <<pc, input, calls, exc, health_outcome, health_result, health_call>>

\* The consumer pulls and the upstream iterator is exhausted.
stream_end ==
    /\ pc = "streaming"
    /\ frames' = on_exhausted(frames)
    /\ pc' = "finished"
    /\ UNCHANGED <<input, calls, exc, pulled, health_outcome, health_result, health_call>>

\* The consumer pulls and the upstream iterator raises: the exception leaves
\* the generator through the for statement.
stream_raise ==
    /\ pc = "streaming"
    /\ pc' = "raised"
    /\ UNCHANGED <<input, calls, exc, pulled, frames, health_outcome, health_result, health_call>>

health_max_tokens == 4

\* check_health without the try/except.
check_health_uncaught(outcome) ==
    IF outcome = "raise" THEN "exception"
    ELSE IF outcome = "response" THEN "true" ELSE "false"

\* check_health: what it returns for what the completions call did
\* ("response": an object came back, "None", "raise": it raised).
check_health(outcome) ==
    IF outcome = "raise" THEN "false"
    ELSE IF outcome # "None" THEN "true" ELSE "false"

llm_check_health ==
    /\ health_result = "unset"
    /\ \E outcome \in {"response", "None", "raise"} :
          /\ health_outcome' = outcome
          /\ health_result' = check_health(outcome)
    /\ health_call' = <<[endpoint |-> "completions", prompt |-> <<"How are you?">>,
                         max_tokens |-> health_max_tokens]>>
    /\ UNCHANGED <<pc, input, calls, exc, pulled, frames>>

(***************************************************************************)
(* Specifications.  Each one runs one component; the variables of the      *)
(* others stay at their initial values.                                    *)
(***************************************************************************)
InitRerank ==
    /\ file_server_endpoint \in FileServerEndpoints
    /\ rr_pc = "idle"
    /\ rr_input = [metadata |-> << >>, top_n |-> 1, initial_query |-> << >>]
    /\ top_video_names = << >>
    /\ rr_status = "none"
    /\ rr_detail = << >>
    /\ rr_result = NoDoc
    /\ fn_pc = "start"
    /\ fn_name = << >>
    /\ fn_out1 = NoOutcome
    /\ fn_out2 = NoOutcome
    /\ pc = "idle"
    /\ input = NoInput
    /\ calls = << >>
    /\ exc = "none"
    /\ pulled = << >>
    /\ frames = << >>
    /\ health_outcome = "none"
    /\ health_result = "unset"
    /\ health_call = << >>

NextRerank == rr_invoke /\ UNCHANGED <<fn_vars, llm_vars>>

SpecRerank == InitRerank /\ [][NextRerank]_vars

InitName ==
    /\ file_server_endpoint = <<"http://0.0.0.0:6005">>
    /\ rr_pc = "idle"
    /\ rr_input = [metadata |-> << >>, top_n |-> 1, initial_query |-> << >>]
    /\ top_video_names = << >>
    /\ rr_status = "none"
    /\ rr_detail = << >>
    /\ rr_result = NoDoc
    /\ fn_pc = "start"
    /\ fn_name \in SeqsUpTo(NameSymbols, MaxNameLen)
    /\ fn_out1 = NoOutcome
    /\ fn_out2 = NoOutcome
    /\ pc = "idle"
    /\ input = NoInput
    /\ calls = << >>
    /\ exc = "none"
    /\ pulled = << >>
    /\ frames = << >>
    /\ health_outcome = "none"
    /\ health_result = "unset"
    /\ health_call = << >>

NextName ==
    \/ fn_first /\ UNCHANGED <<rr_vars, llm_vars>>
    \/ fn_second /\ UNCHANGED <<rr_vars, llm_vars>>

SpecName == InitName /\ [][NextName]_vars

InitLLM ==
    /\ file_server_endpoint = <<"http://0.0.0.0:6005">>
    /\ rr_pc = "idle"
    /\ rr_input = [metadata |-> << >>, top_n |-> 1, initial_query |-> << >>]
    /\ top_video_names = << >>
    /\ rr_status = "none"
    /\ rr_detail = << >>
    /\ rr_result = NoDoc
    /\ fn_pc = "start"
    /\ fn_name = << >>
    /\ fn_out1 = NoOutcome
    /\ fn_out2 = NoOutcome
    /\ pc = "idle"
    /\ input = NoInput
    /\ calls = << >>
    /\ exc = "none"
    /\ pulled = << >>
    /\ frames = << >>
    /\ health_outcome = "none"
    /\ health_result = "unset"
    /\ health_call = << >>

NextLLM ==
    \/ llm_invoke /\ UNCHANGED <<rr_vars, fn_vars>>
    \/ stream_chunk /\ UNCHANGED <<rr_vars, fn_vars>>
    \/ stream_end /\ UNCHANGED <<rr_vars, fn_vars>>
    \/ stream_raise /\ UNCHANGED <<rr_vars, fn_vars>>
    \/ llm_check_health /\ UNCHANGED <<rr_vars, fn_vars>>

Spec == InitLLM /\ [][NextLLM]_vars

(***************************************************************************)
(* Claims about the video reranking adapter.                               *)
(***************************************************************************)
Votes(md, v) == Cardinality({i \in 1..Len(md) : md[i].video = v})

FirstIndex(md, v) ==
    CHOOSE i \in 1..Len(md) : md[i].video = v /\ \A j \in 1..(i - 1) : md[j].video # v

\* The name carries an extension (a dot followed by word characters up to the
\* end) and that extension is not mp4.
BadExtension(name) ==
    \E i \in 1..(Len(name) - 1) :
        /\ name[i] = "."
        /\ \A j \in (i + 1)..Len(name) : name[j] # "." /\ name[j] # "/"
        /\ SubSeq(name, i + 1, Len(name)) # <<"mp4">>

EndsMp4(name) ==
    Len(name) >= 2 /\ SubSeq(name, Len(name) - 1, Len(name)) = <<".", "mp4">>

\* name = base + "_interval_" + digits + ".mp4"
HasTrailingInterval(name) ==
    /\ EndsMp4(name)
    /\ \E p \in 1..(Len(name) - 3) :
          /\ name[p] = "_interval_"
          /\ \A j \in (p + 1)..(Len(name) - 2) : name[j] \in {"0", "1"}

\* C3: for a non-empty metadata list and top_n >= 1 the winner is an
\* identifier of the list with the maximum occurrence count, the first-seen
\* one among those with the maximum count, and a returned video_url is the
\* file-server base joined with the canonical name of that winner.
C3_WinnerFirstSeenMostVoted ==
    (rr_pc = "done" /\ rr_input.metadata # << >> /\ rr_input.top_n >= 1) =>
        /\ top_video_names # << >>
        /\ LET md == rr_input.metadata
               w == top_video_names[1]
           IN /\ \E i \in 1..Len(md) : md[i].video = w
              /\ \A i \in 1..Len(md) : Votes(md, md[i].video) <= Votes(md, w)
              /\ \A i \in 1..Len(md) :
                    Votes(md, md[i].video) = Votes(md, w) => FirstIndex(md, w) <= i
              /\ rr_status = "ok" =>
                    /\ ~BadExtension(w)
                    /\ rr_result.video_url =
                          rstrip_slash(file_server_endpoint) \o <<"/">>
                             \o format_video_name(w).value

\* C3 witness: a successful call where another identifier ties with the
\* winner at the maximum count and first appears later in the list.
C3_Witness ==
    /\ rr_pc = "done" /\ rr_status = "ok" /\ rr_input.top_n >= 1
    /\ LET md == rr_input.metadata
           w == top_video_names[1]
       IN \E i \in 1..Len(md) :
             /\ md[i].video # w
             /\ Votes(md, md[i].video) = Votes(md, w)
             /\ FirstIndex(md, w) < i

C9_Idempotent ==
    /\ (fn_pc # "start" /\ fn_out1.ok) =>
          EndsMp4(fn_out1.value) /\ ~HasTrailingInterval(fn_out1.value)
    /\ fn_pc = "twice" => fn_out2 = fn_out1

\* C9 amended: the output of an accepted name ends in .mp4; one trailing
\* _interval_<digits> suffix is stripped, so a second application returns the
\* output unchanged exactly when the output carries no further trailing
\* _interval_<digits> suffix (and strips that one otherwise); "x.mp4" maps to
\* "x.mp4".
C9_IdempotentUnlessStacked ==
    /\ (fn_pc # "start" /\ fn_out1.ok) => EndsMp4(fn_out1.value)
    /\ (fn_pc # "start" /\ fn_name = <<"x", ".", "mp4">>) =>
          fn_out1 = [ok |-> TRUE, value |-> fn_name]
    /\ fn_pc = "twice" =>
          /\ fn_out2.ok
          /\ ~HasTrailingInterval(fn_out1.value) => fn_out2 = fn_out1
          /\ HasTrailingInterval(fn_out1.value) =>
                Len(fn_out2.value) < Len(fn_out1.value)

\* C9 witness: a name with an interval suffix was canonicalized to a shorter
\* name and the second application left that output unchanged.
C9_Witness ==
    /\ fn_pc = "twice"
    /\ \E i \in 1..Len(fn_name) : fn_name[i] = "_interval_"
    /\ Len(fn_out1.value) < Len(fn_name)
    /\ fn_out2 = fn_out1

(***************************************************************************)
(* Claims about the TGI LLM adapter.                                       *)
(***************************************************************************)
VarSet(template) ==
    {n \in {"context", "question", "topic"} :
        \E i \in 1..Len(template) : template[i] = "{" \o n \o "}"}

\* The template with {question} and {context} replaced by the given texts.
Rendered(template, question, context) ==
    Flatten([i \in 1..Len(template) |->
                IF template[i] = "{question}" THEN question
                ELSE IF template[i] = "{context}" THEN context
                ELSE <<template[i]>>])

Invoked == pc # "idle"

StructuredChat == input.type = "ChatCompletionRequest" /\ ~input.is_str

\* The text of a chunk is one of the end-of-stream sentinels.
IsSentinelChunk(c) == c.text \in {"<|im_end|>", "<|endoftext|>"}

\* One data frame per delivered chunk that is not a sentinel, then [DONE].
RECURSIVE DataFrames(_)
DataFrames(chunks) ==
    IF chunks = << >> THEN << >>
    ELSE (IF IsSentinelChunk(Head(chunks)) THEN << >>
          ELSE <<"data: {\"text\":\"" \o Head(chunks).text \o "\"}\n\n">>)
         \o DataFrames(Tail(chunks))

\* C1 as stated: however the upstream iteration ends, cleanly or by raising,
\* the last frame the consumer received is data: [DONE].
C1_DoneAfterAnyEnd ==
    pc \in {"finished", "raised"} => (frames # << >> /\ Last(frames) = DONE)

\* C1 amended: when the upstream iterator is exhausted without raising, the
\* last frame is data: [DONE]; [DONE] is never followed by another frame and
\* is emitted only on that clean end; when the upstream raises during
\* iteration the frames delivered so far are not followed by [DONE].
C1_DoneIffCleanEnd ==
    /\ pc = "finished" => (frames # << >> /\ Last(frames) = DONE)
    /\ \A i \in 1..Len(frames) :
          frames[i] = DONE => (i = Len(frames) /\ pc = "finished")
    /\ pc \in {"streaming", "raised"} => \A i \in 1..Len(frames) : frames[i] # DONE

\* C1 witness: a stream of at least two chunks that ended cleanly with [DONE].
C1_Witness ==
    pc = "finished" /\ Len(pulled) >= 2 /\ Len(frames) >= 3 /\ Last(frames) = DONE

\* C2: when the upstream sequence has ended, the frames are one data frame
\* per delivered chunk that is not a sentinel, in order, followed by [DONE];
\* no sentinel chunk is forwarded.
C2_SentinelsSuppressed ==
    pc = "finished" => frames = DataFrames(pulled) \o <<DONE>>

\* C5: for a reranked-params input with a template, the prompt sent upstream
\* is the template rendered with question and joined documents when its
\* variables are exactly {question, context}, rendered with the question when
\* they are exactly {question}, and the query unchanged otherwise; no
\* exception is raised by the normalization.
C5_RerankedTemplatePrompt ==
    (Invoked /\ input.type = "LLMParamsDoc" /\ input.chat_template # << >>) =>
        /\ exc \in {"none", "APIError"}
        /\ Len(calls) = 1
        /\ calls[1].endpoint = "completions"
        /\ calls[1].prompt =
              IF VarSet(input.chat_template) = {"question", "context"}
              THEN Rendered(input.chat_template, input.query,
                            Join(<<"\n">>, input.documents.docs))
              ELSE IF VarSet(input.chat_template) = {"question"}
              THEN Rendered(input.chat_template, input.query, << >>)
              ELSE input.query

\* C5 witness: documents ["a", "b"], query "q" and a {question, context}
\* template reached the completions endpoint rendered.
C5_Witness ==
    /\ Invoked /\ input.type = "LLMParamsDoc"
    /\ input.chat_template = <<"Q:", "{question}", "C:", "{context}">>
    /\ input.documents.docs = <<<<"a">>, <<"b">>>>
    /\ Len(calls) = 1
    /\ calls[1].prompt = <<"Q:", "q", "C:", "a", "\n", "b">>

\* C6: a structured ChatRequest whose first message is a system message
\* containing {context} is dispatched with the placeholder replaced by the
\* joined documents (empty when absent or empty), so the dispatched content
\* no longer contains {context}.
C6_ContextSubstituted ==
    ( /\ Invoked /\ StructuredChat /\ input.messages # << >>
      /\ input.messages[1].role = "system"
      /\ \E i \in 1..Len(input.messages[1].content) :
            input.messages[1].content[i] = "{context}"
      /\ Len(calls) = 1 ) =>
        /\ \A i \in 1..Len(calls[1].messages[1].content) :
              calls[1].messages[1].content[i] # "{context}"
        /\ calls[1].messages[1].content =
              Rendered(input.messages[1].content, << >>,
                       IF input.documents.is_none THEN << >>
                       ELSE Join(<<"\n">>, input.documents.docs))

\* C7: a structured ChatRequest whose first message is not a system message
\* and that supplies a template is dispatched with a system message holding
\* the formatted template in front when the variables are exactly {context},
\* and with the caller's message list unchanged for any other variable set.
C7_TemplateIgnoredUnlessContext ==
    ( /\ Invoked /\ StructuredChat /\ input.messages # << >>
      /\ input.messages[1].role # "system"
      /\ input.chat_template # << >>
      /\ Len(calls) = 1 ) =>
        IF VarSet(input.chat_template) = {"context"}
        THEN calls[1].messages =
                <<[role |-> "system",
                   content |-> Rendered(input.chat_template, << >>,
                                        Join(<<"\n">>, input.documents.docs))]>>
                \o input.messages
        ELSE calls[1].messages = input.messages

\* C8: check_health returns true exactly when the probe returned a response
\* object, false when it raised or returned nothing, and never lets the
\* exception out; the probe is the fixed completions call.
C8_HealthNeverRaises ==
    health_result # "unset" =>
        /\ health_result \in {"true", "false"}
        /\ health_result = "true" <=> health_outcome = "response"
        /\ health_outcome = "raise" => health_result = "false"
        /\ health_call = <<[endpoint |-> "completions", prompt |-> <<"How are you?">>,
                            max_tokens |-> 4]>>

\* C8 witness: the probe raised and check_health returned false.
C8_Witness == health_outcome = "raise" /\ health_result = "false"

NormalizationRaises ==
    IF StructuredChat
    THEN \/ input.messages = << >>
         \/ /\ input.messages # << >>
            /\ input.messages[1].role = "system"
            /\ \E i \in 1..Len(input.messages[1].content) :
                  input.messages[1].content[i] = "{context}"
            /\ \E i \in 1..Len(input.messages[1].content) :
                  input.messages[1].content[i] \in {"{question}", "{topic}"}
         \/ /\ input.messages # << >>
            /\ input.messages[1].role # "system"
            /\ VarSet(input.chat_template) = {"context"}
            /\ input.documents.is_none
    ELSE /\ input.type = "ChatCompletionRequest"
         /\ VarSet(input.chat_template) = {"question", "context"}
         /\ input.documents.is_none

====
